---------------------------- MODULE Spec2Model ----------------------------
(***************************************************************************)
(* A model of the clearity-backend message pipeline:                       *)
(*   - AIClient.json_completion, the JSON decoding of a generator reply    *)
(*     (app/services/ai_client.py);                                        *)
(*   - the task sort of Layer4Actions.analyze_and_generate_tasks           *)
(*     (app/services/layer4_actions.py);                                   *)
(*   - Layer1Orchestrator.process_message and the repositories it writes   *)
(*     and reads (app/services/layer1_orchestrator.py and friends).        *)
(* Strings are sequences of one-character strings.  Scores are integers    *)
(* in tenths (5 is 0.5).  Row ids are the row's position in its table.     *)
(***************************************************************************)
EXTENDS Integers, Sequences, FiniteSets, TLC

VARIABLES
    \* ---- AIClient.json_completion, one call
    dec_text,       \* the JSON-ish text the generator meant to send
    dec_wrap,       \* how the generator wrapped it: [kind, pad]
    dec_response,   \* the text chat_completion returned
    dec_budget,     \* max_tokens of the call
    dec_result,     \* NoResult, or what json_completion returned / raised / logged
    \* ---- the task sort, one call
    sort_in,        \* response["tasks"] as the generator gave it
    sort_out,       \* NoResult, or the list after tasks.sort(...)
    \* ---- the message pipeline
    scenario,       \* which family of generator replies and messages a behaviour draws from
    clock,          \* number of process_message calls started so far
    sessions,       \* table sessions
    messages,       \* table messages
    mind_maps,      \* table mind_maps
    projects,       \* tables projects and project_fields
    connections,    \* table connections
    issues,         \* table issues
    root_causes,    \* tables root_causes and root_cause_issues
    plans,          \* table plans
    tasks,          \* table tasks
    snapshots,      \* table snapshots
    turn,           \* per task slot: the locals of its process_message call
    mindmap_view,   \* the last answer of GET /sessions/{id}/mindmap
    candidates_view, \* the last answer of retrieve_snapshot_candidates
    users,          \* table users
    chat            \* POST /chat: how many requests it rejected, and the last status

decoderVars == <<dec_text, dec_wrap, dec_response, dec_budget, dec_result>>
sortVars == <<sort_in, sort_out>>
tableVars == <<sessions, messages, mind_maps, projects, connections, issues,
               root_causes, plans, tasks, snapshots>>
pipelineVars == <<scenario, clock, tableVars, turn, mindmap_view, candidates_view, users, chat>>
vars == <<decoderVars, sortVars, pipelineVars>>

\* An absent result.
NoResult == [kind |-> "none"]

\* ------------------------------------------------------------------ bounds
\* Longest generator text the decoder is tried on.
MaxTextLen == 3
\* Largest max_tokens a decoder call is given.
MaxBudget == 2
\* Longest task list the sort is tried on.
MaxSortLen == 3
\* Messages one session processes.
MaxTurns == 2
\* Most top-level projects, child nodes, connections and tasks in one generator reply.
MaxGenProjects == 3
MaxGenNodes == 4
MaxGenConns == 2
MaxGenTasks == 3
\* How far past the summary limit the longest message goes.
MsgSlack == 1
\* Most plans in one reply of the reasoning call.
MaxGenPlans == 2
\* Requests POST /chat rejects in one behaviour.
MaxRejects == 2

\* ------------------------------------------------------- sequence helpers
RECURSIVE SeqsUpTo(_, _)
SeqsUpTo(S, n) ==
    IF n = 0 THEN {<<>>}
    ELSE LET shorter == SeqsUpTo(S, n - 1)
         IN  shorter \cup {Append(s, x) : s \in {t \in shorter : Len(t) = n - 1}, x \in S}

Range(s) == {s[i] : i \in 1..Len(s)}

\* s[i:] and s[:-k] of Python, 0-based i
DropFirst(s, i) == IF i >= Len(s) THEN <<>> ELSE SubSeq(s, i + 1, Len(s))
DropLast(s, k) == IF k >= Len(s) THEN <<>> ELSE SubSeq(s, 1, Len(s) - k)

StartsWith(s, p) == Len(s) >= Len(p) /\ SubSeq(s, 1, Len(p)) = p
EndsWith(s, p) == Len(s) >= Len(p) /\ SubSeq(s, Len(s) - Len(p) + 1, Len(s)) = p

\* ---------------------------------------------------------------- json.loads
\* The characters the generator's text is made of.
\* The backquote character.
Tick == "BACKQUOTE"
Alphabet == {"{", "}", "[", "]", ",", "1", " ", Tick}
Whitespace == {" ", "\n"}

RECURSIVE SkipWs(_, _)
SkipWs(s, i) == IF i <= Len(s) /\ s[i] \in Whitespace THEN SkipWs(s, i + 1) ELSE i

RECURSIVE DigitsEnd(_, _)
DigitsEnd(s, i) == IF i <= Len(s) /\ s[i] = "1" THEN DigitsEnd(s, i + 1) ELSE i

ParseFail(msg) == [ok |-> FALSE, err |-> msg]
ParseOk(v, e) == [ok |-> TRUE, val |-> v, end |-> e]

\* scan_once at position i (1-based): a number, an array or an object.  With no
\* quote in the alphabet an object can only be the empty one.
RECURSIVE ScanOnce(_, _), ArrayItems(_, _, _)
ScanOnce(s, i) ==
    IF i > Len(s) THEN ParseFail("Expecting value")
    ELSE IF s[i] = "1" THEN
        LET e == DigitsEnd(s, i) IN ParseOk([t |-> "num", digits |-> e - i], e)
    ELSE IF s[i] = "[" THEN
        LET j == SkipWs(s, i + 1)
        IN  IF j <= Len(s) /\ s[j] = "]"
            THEN ParseOk([t |-> "arr", items |-> <<>>], j + 1)
            ELSE ArrayItems(s, j, <<>>)
    ELSE IF s[i] = "{" THEN
        LET j == SkipWs(s, i + 1)
        IN  IF j <= Len(s) /\ s[j] = "}"
            THEN ParseOk([t |-> "obj"], j + 1)
            ELSE ParseFail("Expecting property name enclosed in double quotes")
    ELSE ParseFail("Expecting value")

ArrayItems(s, i, acc) ==
    LET r == ScanOnce(s, i)
    IN  IF ~r.ok THEN r
        ELSE LET k == SkipWs(s, r.end)
                 items == Append(acc, r.val)
             IN  IF k <= Len(s) /\ s[k] = "]"
                 THEN ParseOk([t |-> "arr", items |-> items], k + 1)
                 ELSE IF k > Len(s) \/ s[k] # ","
                 THEN ParseFail("Expecting , delimiter")
                 ELSE ArrayItems(s, SkipWs(s, k + 1), items)

\* json.loads(s): leading whitespace, one value, trailing whitespace, end.
JsonLoads(s) ==
    LET r == ScanOnce(s, SkipWs(s, 1))
    IN  IF ~r.ok THEN r
        ELSE IF SkipWs(s, r.end) # Len(s) + 1 THEN ParseFail("Extra data")
        ELSE r

\* ------------------------------------------------------------------ str.strip
RECURSIVE LStrip(_)
LStrip(s) == IF Len(s) > 0 /\ s[1] \in Whitespace THEN LStrip(Tail(s)) ELSE s
RECURSIVE RStrip(_)
RStrip(s) == IF Len(s) > 0 /\ s[Len(s)] \in Whitespace THEN RStrip(DropLast(s, 1)) ELSE s
Strip(s) == RStrip(LStrip(s))

\* ------------------------------------------------- AIClient.json_completion
FenceJson == <<Tick, Tick, Tick, "j", "s", "o", "n">>
Fence == <<Tick, Tick, Tick>>
\* len(response) > max_tokens * 3
TruncFactor == 3

TruncationSuspectedAtOrAbove(response, max_tokens) == Len(response) >= max_tokens * TruncFactor
TruncationSuspected(response, max_tokens) == Len(response) > max_tokens * TruncFactor

CleanResponseShortPrefix(response) ==
    LET a == Strip(response)
        b == IF StartsWith(a, FenceJson) THEN DropFirst(a, Len(Fence)) ELSE a
        c == IF EndsWith(b, Fence) THEN DropLast(b, Len(Fence)) ELSE b
    IN  Strip(c)
\* response.strip(), then [7:] after the json fence, then [:-3] before a fence, then strip()
CleanResponse(response) ==
    LET a == Strip(response)
        b == IF StartsWith(a, FenceJson) THEN DropFirst(a, Len(FenceJson)) ELSE a
        c == IF EndsWith(b, Fence) THEN DropLast(b, Len(Fence)) ELSE b
    IN  Strip(c)

\* What one json_completion call does with the text chat_completion returned:
\* the value it returns or the error it raises, and whether the truncation
\* diagnostic was logged.
JsonCompletion(response, max_tokens) ==
    LET first == JsonLoads(response)
    IN  IF first.ok
        THEN [kind |-> "value", value |-> first.val, logged_truncation |-> FALSE]
        ELSE LET logged == TruncationSuspected(response, max_tokens)
                 second == JsonLoads(CleanResponse(response))
             IN  IF second.ok
                 THEN [kind |-> "value", value |-> second.val, logged_truncation |-> logged]
                 ELSE [kind |-> "error",
                       error |-> [type |-> "ValueError", max_tokens |-> max_tokens,
                                  cause |-> first.err],
                       logged_truncation |-> logged]

\* The ways the generator wraps its text.
WrapKinds == {"plain", "json_fence", "bare_fence", "open_fence_only"}
Pads == {<<>>, <<"\n">>, <<" ", "\n">>}
Wrap(text, w) ==
    CASE w.kind = "plain" -> text
      [] w.kind = "json_fence" -> w.pad \o FenceJson \o w.pad \o text \o w.pad \o Fence \o w.pad
      [] w.kind = "bare_fence" -> w.pad \o Fence \o w.pad \o text \o w.pad \o Fence \o w.pad
      [] w.kind = "open_fence_only" -> w.pad \o FenceJson \o w.pad \o text

InitDecoder ==
    /\ dec_text \in SeqsUpTo(Alphabet, MaxTextLen)
    /\ dec_wrap \in [kind : WrapKinds, pad : Pads]
    /\ dec_response = Wrap(dec_text, dec_wrap)
    /\ dec_budget \in 1..MaxBudget
    /\ dec_result = NoResult

DecodeCall ==
    /\ dec_result = NoResult
    /\ dec_result' = JsonCompletion(dec_response, dec_budget)
    /\ UNCHANGED <<dec_text, dec_wrap, dec_response, dec_budget>>

\* ------------------------------------------- the task sort (layer4_actions)
\* A key the generator may leave out holds <<>> when absent and <<v>> when present.
Missing == <<>>
Present(v) == <<v>>
\* t.get("priority_score", 0)
PriorityKey(t) == IF t.priority_score = Missing THEN 0 ELSE t.priority_score[1]

\* list.sort(key=..., reverse=True): descending by key, equal keys keep their order.
RECURSIVE InsertDesc(_, _)
InsertDesc(sorted, t) ==
    IF sorted = <<>> THEN <<t>>
    ELSE IF PriorityKey(Head(sorted)) >= PriorityKey(t)
         THEN <<Head(sorted)>> \o InsertDesc(Tail(sorted), t)
         ELSE <<t>> \o sorted
RECURSIVE InsertDescTiesFirst(_, _)
InsertDescTiesFirst(sorted, t) ==
    IF sorted = <<>> THEN <<t>>
    ELSE IF PriorityKey(Head(sorted)) > PriorityKey(t)
         THEN <<Head(sorted)>> \o InsertDescTiesFirst(Tail(sorted), t)
         ELSE <<t>> \o sorted

RECURSIVE SortTasksFrom(_, _)
SortTasksFrom(sorted, rest) ==
    IF rest = <<>> THEN sorted
    ELSE SortTasksFrom(InsertDesc(sorted, Head(rest)), Tail(rest))
RECURSIVE SortTasksUnstableFrom(_, _)
SortTasksUnstableFrom(sorted, rest) ==
    IF rest = <<>> THEN sorted
    ELSE SortTasksUnstableFrom(InsertDescTiesFirst(sorted, Head(rest)), Tail(rest))

SortTasksUnstable(task_list) == SortTasksUnstableFrom(<<>>, task_list)
SortTasks(task_list) == SortTasksFrom(<<>>, task_list)

SortScores == {Missing, Present(0), Present(5), Present(9)}
\* The i-th task of the generator's list is named i.
NamedTasks(scores) == [i \in 1..Len(scores) |-> [name |-> i, priority_score |-> scores[i]]]

InitSort ==
    /\ sort_in \in {NamedTasks(s) : s \in SeqsUpTo(SortScores, MaxSortLen)}
    /\ sort_out = NoResult

SortCall ==
    /\ sort_out = NoResult
    /\ sort_out' = [kind |-> "sorted", tasks |-> SortTasks(sort_in)]
    /\ UNCHANGED sort_in

\* ============================================================ the pipeline
Procs == {1, 2}
Sessions == {1, 2}
Min(a, b) == IF a < b THEN a ELSE b

\* ------------------------------------------------ what the generator returns
\* A candidate project or node of a generated graph.  An ephemeral id of 0
\* stands for an id that is absent or falsy (None, "", 0); the other ids stand
\* for str(id).
CandNode(id, importance, core) ==
    [id |-> id, importance_score |-> importance, is_core_issue |-> core, fields |-> Missing]
CandProject(id, importance, nodes) ==
    [id |-> id, label |-> Present("p"), importance_score |-> importance, is_core_issue |-> FALSE,
     fields |-> Present(<<"career">>), nodes |-> nodes]
CandConn(from, to, rc) == [from_id |-> from, to_id |-> to, root_cause_id |-> rc]
Graph(name, projs, conns) ==
    [map_name |-> name, central_theme |-> "theme", projects |-> projs, connections |-> conns]

\* n top-level projects with ids 1..n and falling importance, no nodes.
PlainGraph(n) ==
    Graph("A", [i \in 1..n |-> CandProject(i, Present(10 - i), <<>>)], <<>>)
\* The same with k nodes under the first project; odd nodes leave the
\* importance out.
NodesGraph(n, k) ==
    Graph("A",
          [i \in 1..n |->
              CandProject(i, Present(10 - i),
                          IF i > 1 THEN <<>>
                          ELSE [j \in 1..k |->
                                   CandNode(10 + j, IF j % 2 = 1 THEN Missing ELSE Present(7),
                                            j = 1)])],
          <<>>)
\* The last one connects the project with its third node.
CapsGraphs ==
    {PlainGraph(0)} \cup {NodesGraph(n, k) : n \in {1, MaxGenProjects}, k \in {0, MaxGenNodes}}
        \cup {[NodesGraph(1, MaxGenNodes) EXCEPT !.connections = <<CandConn(1, 13, 0)>>]}

\* Graphs whose connections do and do not resolve: project 1 alone, or an
\* id-less project with node 2 followed by project 1.
ConnCandidates == {CandConn(1, 2, 1), CandConn(2, 0, 0)}
ConnStructures ==
    { <<CandProject(1, Present(6), <<>>)>>,
      <<CandProject(0, Present(6), <<CandNode(2, Present(4), TRUE)>>),
        CandProject(1, Missing, <<>>)>> }
ConnsGraphs ==
    {Graph("A", ps, cs) : ps \in ConnStructures, cs \in SeqsUpTo(ConnCandidates, MaxGenConns)}

\* Graphs that differ in the map name only; "" is a falsy name.
NamesGraphs == {Graph(n, <<CandProject(1, Present(6), <<>>)>>, <<>>) : n \in {"A", "B", ""}}

OneGraph == {PlainGraph(1)}

\* Graphs the persistence stumbles on after a first good project: a project
\* without a label, a score outside 0.0-1.0 (on a project, on a node), a field
\* id outside the vocabulary between two field ids of it.
FaultGraphs ==
    {PlainGraph(1),
     Graph("A", <<CandProject(1, Present(6), <<>>),
                  [CandProject(2, Present(6), <<>>) EXCEPT !.label = Missing]>>, <<>>),
     Graph("A", <<CandProject(1, Present(0), <<CandNode(3, Present(10), FALSE)>>),
                  CandProject(2, Present(15), <<>>)>>, <<>>),
     Graph("A", <<CandProject(1, Present(6), <<CandNode(3, Present(0 - 2), FALSE)>>)>>, <<>>),
     Graph("A", <<CandProject(1, Present(6), <<>>),
                  [CandProject(2, Present(6), <<>>) EXCEPT
                       !.fields = Present(<<"money", "fld_startups", "health">>)]>>, <<>>)}

Graphs(sc) ==
    CASE sc = "caps" -> CapsGraphs
      [] sc = "conns" -> ConnsGraphs
      [] sc = "names" -> NamesGraphs
      [] sc = "faults" -> FaultGraphs
      [] OTHER -> OneGraph

\* The reply of the reasoning call.
CandTask(name, score) == [name |-> name, priority_score |-> score, related_issue |-> "i1"]
Analysis(ts) ==
    [issues |-> <<[id |-> "i1"]>>,
     root_causes |-> <<[id |-> "rc1", linked_issues |-> <<"i1">>]>>,
     plans |-> <<[issue_id |-> "i1"]>>,
     tasks |-> ts,
     suggested_issue_to_focus_now |-> "i1"]
TaskScores == {Present(3), Present(8)}
TasksAnalyses ==
    {Analysis([i \in 1..MaxGenTasks |-> CandTask(i, s[i])]) : s \in [1..MaxGenTasks -> TaskScores]}
        \cup {Analysis(<<>>), Analysis(<<CandTask(1, Present(8)), CandTask(2, Missing)>>)}
OneAnalysis == {Analysis(<<CandTask(1, Present(8))>>)}

\* Replies whose plans, root-cause links or task name the issue of the reply
\* ("i1") or an id no issue of the reply has ("i9"), and a reply with the two
\* issues "i2", "i1".
PlansAnalyses ==
    {[Analysis(<<CandTask(1, Present(8))>>) EXCEPT
          !.plans = [i \in 1..Len(s) |-> [issue_id |-> s[i]]]] :
        s \in SeqsUpTo({"i1", "i9"}, MaxGenPlans)}
    \cup {[Analysis(<<CandTask(1, Present(8))>>) EXCEPT !.root_causes[1].linked_issues = l] :
              l \in {<<"i9">>, <<"i9", "i1">>}}
    \cup {Analysis(<<CandTask(1, Present(8)),
                     [CandTask(2, Present(3)) EXCEPT !.related_issue = "i9"]>>),
          [Analysis(<<CandTask(1, Present(8))>>) EXCEPT
               !.issues = <<[id |-> "i2"], [id |-> "i1"]>>]}

\* Replies whose second task (after the sort) has no priority score or one
\* outside 0.0-1.0.
FaultAnalyses ==
    OneAnalysis \cup {Analysis(<<CandTask(1, Present(8)), CandTask(2, sc)>>) :
                          sc \in {Missing, Present(0 - 1)}}
                \cup {Analysis(<<CandTask(1, Present(10)), CandTask(2, Present(12))>>)}

Analyses(sc) ==
    CASE sc = "tasks" -> TasksAnalyses
      [] sc = "plans" -> PlansAnalyses
      [] sc = "faults" -> FaultAnalyses
      [] OTHER -> OneAnalysis

\* message[:200]
SummaryLimit == 200
MessageOfLen(n) == [i \in 1..n |-> IF i % 2 = 1 THEN "a" ELSE "b"]
ContextMessages ==
    {MessageOfLen(n) : n \in {1, SummaryLimit, SummaryLimit + MsgSlack}}
Messages(sc) == IF sc = "context" THEN ContextMessages ELSE {MessageOfLen(2)}

\* Who calls process_message for which session: (task, session) pairs.  Two
\* calls for one session at a time ("race"), two calls for two sessions at a
\* time ("apart"), otherwise one call after the other for one session.
Callers(sc) ==
    CASE sc = "race" -> {<<1, 1>>, <<2, 1>>}
      [] sc = "apart" -> {<<1, 1>>, <<2, 2>>}
      [] OTHER -> {<<1, 1>>}
Concurrent(sc) == sc \in {"race", "apart"}

\* POST /chat requests: the task that serves it, who is authenticated
\* (current_user_id) and the body's user_id and session_id, NoId standing for
\* None.  "chat" sends every mix of them, a session id no row has among them;
\* the other families send what a client of an existing session sends.
NoId == 0
UnknownSession == 9
Requests(sc) ==
    IF sc = "chat"
    THEN [task : {1}, auth : {NoId, 1, 2}, user_id : {NoId, 1},
          session_id : {NoId, 1, 2, UnknownSession}]
    ELSE {[task |-> c[1], auth |-> NoId, user_id |-> c[2], session_id |-> c[2]] :
             c \in Callers(sc)}

\* How a generator call can fail, and what chat_completion / json_completion raise then.
GeneratorFailures == {"timeout", "http_error", "error_envelope", "missing_fields", "bad_json"}
Raised(failure) ==
    CASE failure = "timeout" -> "httpx.ReadTimeout"
      [] failure = "http_error" -> "httpx.HTTPStatusError"
      [] failure = "error_envelope" -> "Exception"
      [] failure = "missing_fields" -> "KeyError"
      [] failure = "bad_json" -> "ValueError"
      [] failure = "cancelled" -> "asyncio.CancelledError"
\* The classes above that derive from Exception; CancelledError derives from
\* BaseException only.
ExceptionSubclasses ==
    {"httpx.ReadTimeout", "httpx.HTTPStatusError", "Exception", "KeyError", "ValueError"}

\* What can happen to the context call: a reply, a generator failure, or the
\* task being cancelled while it waits.
ContextOutcomes(sc) ==
    IF sc = "context" THEN {"ok", "cancelled"} \cup GeneratorFailures ELSE {"ok", "timeout"}

\* --------------------------------------------------------------- ordering
\* The ids of S by k1 descending, then k2 descending (k1, k2: functions on S).
RECURSIVE OrderedDesc(_, _, _)
OrderedDesc(S, k1, k2) ==
    IF S = {} THEN <<>>
    ELSE LET best == CHOOSE x \in S :
                        \A y \in S : k1[x] > k1[y] \/ (k1[x] = k1[y] /\ k2[x] >= k2[y])
         IN  <<best>> \o OrderedDesc(S \ {best}, k1, k2)

\* ORDER BY k DESC leaves the order of equal keys to the engine: the sets of
\* rows that can make up the first n.
TopChoices(S, k, n) ==
    IF Cardinality(S) <= n THEN {S}
    ELSE LET order == OrderedDesc(S, k, [x \in S |-> 0])
             bound == k[order[n]]
             above == {x \in S : k[x] > bound}
             at == {x \in S : k[x] = bound}
         IN  {above \cup U : U \in {V \in SUBSET at : Cardinality(V) = n - Cardinality(above)}}

Ids(table) == 1..Len(table)

\* ------------------------------------------------- Layer2MindMap.persist_*
\* project_data.get("importance_score", 0.5)
DefaultImportance == 5
OrDefault(opt, default) == IF opt = Missing THEN default ELSE opt[1]

\* The closed vocabulary of field ids (table fields); create_project hands the
\* ids and scores it is given to the INSERT as they are.
FieldVocabulary ==
    {"startups", "career", "education", "health", "mental_health", "relationships",
     "money", "family", "personal_growth"}
\* project_repository.create_project: the row INSERTed (and its project_fields).
ProjectRow(mm, parent, importance, core, fields, tn) ==
    [mind_map_id |-> mm, parent_id |-> parent, importance_score |-> importance,
     is_core_issue |-> core, is_visible |-> TRUE, fields |-> fields, created_in |-> tn]

\* create_project as a whole: the projects row with the score it was given,
\* then one project_fields row per field id it was given (ON CONFLICT DO
\* NOTHING: a repeated id leaves one row).
CreateProject(rows, mm, parent, importance, core, fields, tn) ==
    Append(rows, ProjectRow(mm, parent, importance, core, Range(fields), tn))

\* if "id" in data and data["id"]: id_mapping[str(data["id"])] = row_id
Remember(map, eph, row_id) == IF eph # 0 THEN (eph :> row_id) @@ map ELSE map

\* The loop over project_data["nodes"]: acc is [rows, map, ok].
RECURSIVE PersistNodes(_, _, _, _, _, _)
PersistNodes(acc, mm, parent, pfields, nodes, tn) ==
    IF nodes = <<>> THEN acc
    ELSE LET n == Head(nodes)
             made == CreateProject(acc.rows, mm, parent,
                                   OrDefault(n.importance_score, DefaultImportance),
                                   n.is_core_issue, OrDefault(n.fields, pfields), tn)
         IN  PersistNodes([acc EXCEPT !.rows = made,
                                      !.map = Remember(acc.map, n.id, Len(made))],
                          mm, parent, pfields, Tail(nodes), tn)

\* _persist_project: the project's row, its id remembered, then its nodes;
\* project_data["label"] raises KeyError before anything is written.
PersistProject(acc, mm, p, tn) ==
    IF p.label = Missing THEN [acc EXCEPT !.ok = FALSE]
    ELSE LET pfields == OrDefault(p.fields, <<>>)
             made == CreateProject(acc.rows, mm, 0,
                                   OrDefault(p.importance_score, DefaultImportance),
                                   p.is_core_issue, pfields, tn)
             pid == Len(made)
         IN  PersistNodes([acc EXCEPT !.rows = made, !.map = Remember(acc.map, p.id, pid)],
                          mm, pid, pfields, p.nodes, tn)

RECURSIVE PersistProjectsRollingBack(_, _, _, _)
PersistProjectsRollingBack(acc, mm, ps, tn) ==
    IF ps = <<>> \/ ~acc.ok THEN acc
    ELSE LET rest == PersistProjectsRollingBack(PersistProject(acc, mm, Head(ps), tn), mm,
                                                Tail(ps), tn)
         IN  IF rest.ok THEN rest ELSE [acc EXCEPT !.ok = FALSE]
\* for project_data in mind_map_data.get("projects", []), until one raises
RECURSIVE PersistProjects(_, _, _, _)
PersistProjects(acc, mm, ps, tn) ==
    IF ps = <<>> \/ ~acc.ok THEN acc
    ELSE PersistProjects(PersistProject(acc, mm, Head(ps), tn), mm, Tail(ps), tn)

\* id_mapping.get(str(eph)): the row id, or 0 for None
Lookup(map, eph) == IF eph \in DOMAIN map THEN map[eph] ELSE 0

PersistConnectionUnlessFromMissing(rows, mm, conn, map, tn) ==
    LET from_id == Lookup(map, conn.from_id)
        to_id == Lookup(map, conn.to_id)
    IN  IF from_id = 0 THEN rows
        ELSE Append(rows, [mind_map_id |-> mm, from_id |-> from_id, to_id |-> to_id,
                           root_cause_id |-> 0, created_in |-> tn])
\* _persist_connection: connections after the call.
PersistConnection(rows, mm, conn, map, tn) ==
    LET from_id == Lookup(map, conn.from_id)
        to_id == Lookup(map, conn.to_id)
        root_cause_id == IF conn.root_cause_id # 0 THEN Lookup(map, conn.root_cause_id) ELSE 0
    IN  IF from_id = 0 \/ to_id = 0 THEN rows
        ELSE Append(rows, [mind_map_id |-> mm, from_id |-> from_id, to_id |-> to_id,
                           root_cause_id |-> root_cause_id, created_in |-> tn])

RECURSIVE PersistConnectionsUntilDrop(_, _, _, _, _)
PersistConnectionsUntilDrop(rows, mm, conns, map, tn) ==
    IF conns = <<>> THEN rows
    ELSE LET next == PersistConnection(rows, mm, Head(conns), map, tn)
         IN  IF next = rows THEN rows
             ELSE PersistConnectionsUntilDrop(next, mm, Tail(conns), map, tn)
\* for conn in mind_map_data.get("connections", []): await self._persist_connection(...)
RECURSIVE PersistConnections(_, _, _, _, _)
PersistConnections(rows, mm, conns, map, tn) ==
    IF conns = <<>> THEN rows
    ELSE PersistConnections(PersistConnection(rows, mm, Head(conns), map, tn),
                            mm, Tail(conns), map, tn)

\* mindmap_repository.update_mind_map: only truthy arguments are written.
UpdateMindMap(maps, id, map_name, central_theme) ==
    [maps EXCEPT ![id].map_name = IF map_name # "" THEN map_name ELSE @,
                 ![id].central_theme = IF central_theme # "" THEN central_theme ELSE @]

\* ------------------------------------ Layer4Actions.persist_analysis_and_tasks
\* for task_data in response.get("tasks", [])[:5]
MaxPersistedTasks == 5

RECURSIVE PersistIssues(_, _, _, _)
PersistIssues(acc, mm, list, tn) ==
    IF list = <<>> THEN acc
    ELSE LET rows == Append(acc.rows, [mind_map_id |-> mm, issue_type |-> Head(list).id,
                                       created_in |-> tn])
         IN  PersistIssues([rows |-> rows, map |-> (Head(list).id :> Len(rows)) @@ acc.map],
                           mm, Tail(list), tn)

RECURSIVE ResolveIssuesKeepingUnknown(_, _)
ResolveIssuesKeepingUnknown(map, ids) ==
    IF ids = <<>> THEN <<>>
    ELSE <<IF Head(ids) \in DOMAIN map THEN map[Head(ids)] ELSE 0>>
             \o ResolveIssuesKeepingUnknown(map, Tail(ids))
RECURSIVE ResolveIssues(_, _)
ResolveIssues(map, ids) ==
    IF ids = <<>> THEN <<>>
    ELSE (IF Head(ids) \in DOMAIN map THEN <<map[Head(ids)]>> ELSE <<>>)
             \o ResolveIssues(map, Tail(ids))

RECURSIVE PersistRootCauses(_, _, _, _, _)
PersistRootCauses(rows, mm, list, map, tn) ==
    IF list = <<>> THEN rows
    ELSE PersistRootCauses(
             Append(rows, [mind_map_id |-> mm, cause_id |-> Head(list).id,
                           linked_issue_ids |-> ResolveIssues(map, Head(list).linked_issues),
                           created_in |-> tn]),
             mm, Tail(list), map, tn)

RECURSIVE PersistPlansUntilUnknown(_, _, _, _)
PersistPlansUntilUnknown(rows, list, map, tn) ==
    IF list = <<>> \/ Head(list).issue_id \notin DOMAIN map THEN rows
    ELSE PersistPlansUntilUnknown(
             Append(rows, [issue_id |-> map[Head(list).issue_id], created_in |-> tn]),
             Tail(list), map, tn)
\* for plan_data in response.get("plans", []): if plan_data["issue_id"] in issue_id_map
RECURSIVE PersistPlans(_, _, _, _)
PersistPlans(rows, list, map, tn) ==
    IF list = <<>> THEN rows
    ELSE PersistPlans(
             IF Head(list).issue_id \in DOMAIN map
             THEN Append(rows, [issue_id |-> map[Head(list).issue_id], created_in |-> tn])
             ELSE rows,
             Tail(list), map, tn)

\* The task loop: task_data["priority_score"] raises KeyError when the key is
\* missing, after the earlier tasks were inserted.  [rows, ok]
RECURSIVE PersistTasks(_, _, _, _, _)
PersistTasks(rows, mm, list, map, tn) ==
    IF list = <<>> THEN [rows |-> rows, ok |-> TRUE]
    ELSE LET t == Head(list)
         IN  IF t.priority_score = Missing
             THEN [rows |-> rows, ok |-> FALSE]
             ELSE PersistTasks(
                      Append(rows, [mind_map_id |-> mm, name |-> t.name,
                                    priority_score |-> t.priority_score[1],
                                    related_issue_id |-> Lookup(map, t.related_issue),
                                    created_in |-> tn]),
                      mm, Tail(list), map, tn)

LatestSnapshotOfAnySession(s) ==
    IF snapshots = <<>> THEN NoResult ELSE snapshots[Len(snapshots)]
\* ------------------------------------------------------------ repositories
\* snapshot_repository.get_latest_snapshot: ORDER BY created_at DESC LIMIT 1
LatestSnapshot(s) ==
    LET mine == {i \in Ids(snapshots) : snapshots[i].session_id = s}
    IN  IF mine = {} THEN NoResult
        ELSE snapshots[CHOOSE i \in mine : \A j \in mine : j <= i]

\* mindmap_repository.get_session_mind_map: ORDER BY updated_at DESC LIMIT 1, 0 for no row
SessionMindMap(s) ==
    LET mine == {i \in Ids(mind_maps) : mind_maps[i].session_id = s}
    IN  IF mine = {} THEN 0
        ELSE CHOOSE i \in mine : \A j \in mine :
                 mind_maps[i].updated_at > mind_maps[j].updated_at
                     \/ (mind_maps[i].updated_at = mind_maps[j].updated_at /\ j <= i)

\* project_repository.get_mind_map_projects: the visible top-level rows, and
\* the key they are ordered by
MindMapProjects(mm) ==
    {i \in Ids(projects) :
        projects[i].mind_map_id = mm /\ projects[i].parent_id = 0 /\ projects[i].is_visible}
ImportanceOf(S) == [i \in S |-> projects[i].importance_score]
ById(S) == [i \in S |-> 0 - i]

\* project_repository.get_project_nodes: ORDER BY importance_score DESC,
\* is_core_issue DESC LIMIT limit
NodeLimit == 3
ProjectNodes(parent) ==
    {i \in Ids(projects) : projects[i].parent_id = parent /\ projects[i].is_visible}
NodeKey(S) ==
    [i \in S |-> 2 * projects[i].importance_score + (IF projects[i].is_core_issue THEN 1 ELSE 0)]
\* the node lists the query can return for one parent
NodeViews(parent) ==
    LET S == ProjectNodes(parent)
    IN  {OrderedDesc(T, NodeKey(T), ById(T)) : T \in TopChoices(S, NodeKey(S), NodeLimit)}

\* The projects list built from the project rows in order: every way to fill in the nodes.
RECURSIVE ProjectViews(_)
ProjectViews(order) ==
    IF order = <<>> THEN {<<>>}
    ELSE {<<[id |-> Head(order), nodes |-> ns]>> \o rest :
              ns \in NodeViews(Head(order)), rest \in ProjectViews(Tail(order))}

\* project_repository.get_mind_map_connections: ORDER BY created_at DESC LIMIT 7
ConnectionLimit == 7
MindMapConnections(mm) ==
    LET S == {i \in Ids(connections) : connections[i].mind_map_id = mm}
        order == OrderedDesc(S, [i \in S |-> i], [i \in S |-> 0])
    IN  SubSeq(order, 1, Min(ConnectionLimit, Len(order)))

\* task_repository.get_mind_map_tasks: ORDER BY priority_score DESC, created_at DESC LIMIT limit
TaskLimit == 5
MindMapTasks(mm, limit) ==
    LET S == {i \in Ids(tasks) : tasks[i].mind_map_id = mm}
        order == OrderedDesc(S, [i \in S |-> tasks[i].priority_score], [i \in S |-> i])
    IN  SubSeq(order, 1, Min(limit, Len(order)))

\* ----------------------------------------------- Layer1Orchestrator._format_*
\* projects_data[:5]
ProjectLimit == 5

ReplyProjectsUnsliced(mm) ==
    LET S == MindMapProjects(mm)
    IN  ProjectViews(OrderedDesc(S, ImportanceOf(S), ById(S)))
\* The projects lists _format_mind_map_response can build.
ReplyProjects(mm) ==
    LET S == MindMapProjects(mm)
    IN  UNION {ProjectViews(OrderedDesc(T, ImportanceOf(T), ById(T))) :
                   T \in TopChoices(S, ImportanceOf(S), ProjectLimit)}

ConnectionView(order) ==
    [i \in 1..Len(order) |->
        [from_id |-> connections[order[i]].from_id, to_id |-> connections[order[i]].to_id]]

\* _format_mind_map_response: the answers it can give (None without a row)
MindMapResponses(mm) ==
    IF mm \notin Ids(mind_maps) THEN {NoResult}
    ELSE {[map_name |-> mind_maps[mm].map_name,
           central_theme |-> mind_maps[mm].central_theme,
           projects |-> ps,
           connections |-> ConnectionView(MindMapConnections(mm))] : ps \in ReplyProjects(mm)}

\* tasks_response[:2]
SuggestedLimit == 2
SuggestedTasksOneMore(mm) ==
    LET order == MindMapTasks(mm, TaskLimit)
    IN  [i \in 1..Min(SuggestedLimit + 1, Len(order)) |->
            [id |-> order[i], priority_score |-> tasks[order[i]].priority_score]]
\* _format_tasks_response(mind_map_id)[:2]
SuggestedTasks(mm) ==
    LET order == MindMapTasks(mm, TaskLimit)
    IN  [i \in 1..Min(SuggestedLimit, Len(order)) |->
            [id |-> order[i], priority_score |-> tasks[order[i]].priority_score]]

\* _format_analysis_response: the rows of the mind map, newest first
AnalysisResponse(mm) ==
    LET I == {i \in Ids(issues) : issues[i].mind_map_id = mm}
        R == {i \in Ids(root_causes) : root_causes[i].mind_map_id = mm}
        P == {i \in Ids(plans) : plans[i].issue_id \in I}
        newest(S) == OrderedDesc(S, [i \in S |-> i], [i \in S |-> 0])
    IN  [issues |-> newest(I), root_causes |-> newest(R), plans |-> newest(P)]

SnapshotResponseOldest(mm) ==
    LET S == {i \in Ids(snapshots) : snapshots[i].mind_map_id = mm}
    IN  IF S = {} THEN NoResult
        ELSE LET first == snapshots[CHOOSE i \in S : \A j \in S : i <= j]
             IN  [map_name |-> first.snapshot_data.map_name,
                  last_updated |-> first.created_in,
                  unresolved_issues |-> first.unresolved_issues]
\* _format_snapshot_response: get_mind_map_snapshots(mind_map_id, limit=1), the
\* newest snapshot of the map, last_updated being its created_at.  The issue
\* ids are strings, which json.dumps and parse_json_field give back as stored.
SnapshotResponse(mm) ==
    LET S == {i \in Ids(snapshots) : snapshots[i].mind_map_id = mm}
    IN  IF S = {} THEN NoResult
        ELSE LET last == snapshots[CHOOSE i \in S : \A j \in S : j <= i]
             IN  [map_name |-> last.snapshot_data.map_name,
                  last_updated |-> last.created_in,
                  unresolved_issues |-> last.unresolved_issues]

\* ------------------------------------------ GET /sessions/{session_id}/mindmap
\* get_session_mindmap: the answers it can give for the session's map mm
SessionMindMapResponses(mm) ==
    LET S == MindMapProjects(mm)
    IN  {[map_name |-> mind_maps[mm].map_name,
          central_theme |-> mind_maps[mm].central_theme,
          projects |-> ps,
          connections |-> ConnectionView(MindMapConnections(mm))] :
             ps \in ProjectViews(OrderedDesc(S, ImportanceOf(S), ById(S)))}

\* ------------------------------------- Layer1Orchestrator.process_message
IdleTurn ==
    [pc |-> "idle", turn_no |-> 0, session_id |-> 0, message |-> <<>>,
     ctx_pc |-> "todo", snap_pc |-> "todo", ctx_outcome |-> "none",
     context |-> NoResult, existing_snapshot |-> NoResult,
     mind_map_data |-> NoResult, mind_map_id |-> 0, id_mapping |-> <<>>,
     generated_tasks |-> <<>>, analysis |-> NoResult,
     response_message |-> "", reply |-> NoResult, failed_at |-> "none", requests |-> 0]

Finished(p) == turn[p].pc \in {"idle", "done", "failed"}
FailAndGoOn(p, stage) == [turn EXCEPT ![p].failed_at = stage]
\* An exception leaves process_message at the given stage.
Fail(p, stage) == [turn EXCEPT ![p].pc = "failed", ![p].failed_at = stage]

GatewayRequestsRetrying(outcome) == IF outcome \in {"bad_json", "timeout"} THEN 2 ELSE 1
\* chat_completion: client.post(...) once, whatever comes of it; json_completion
\* calls chat_completion once and repairs the text it got without calling again.
GatewayRequests(outcome) == 1

InitPipeline(sc) ==
    /\ scenario = sc
    /\ clock = 0
    /\ sessions = [s \in Sessions |-> [user_id |-> s, updated_at |-> 0]]
    /\ messages = <<>>
    /\ mind_maps = <<>>
    /\ projects = <<>>
    /\ connections = <<>>
    /\ issues = <<>>
    /\ root_causes = <<>>
    /\ plans = <<>>
    /\ tasks = <<>>
    /\ snapshots = <<>>
    /\ turn = [p \in Procs |-> IdleTurn]
    /\ mindmap_view = NoResult
    /\ candidates_view = NoResult
    /\ users = [u \in 1..Cardinality(Sessions) |-> [is_anonymous |-> FALSE]]
    /\ chat = [rejected |-> 0, status |-> 0]

\* process_message is called for a message of session s, the earlier call
\* having ended: message_repository.create_message(session_id, "user", message)
ReceiveMessage(p, s, m) ==
    /\ Finished(p)
    /\ Concurrent(scenario) \/ \A q \in Procs : Finished(q)
    /\ clock < MaxTurns
    /\ clock' = clock + 1
    /\ messages' = Append(messages, [session_id |-> s, role |-> "user", content |-> m,
                                     created_in |-> clock + 1])
    /\ turn' = [turn EXCEPT ![p] = [IdleTurn EXCEPT !.pc = "touch", !.turn_no = clock + 1,
                                                   !.session_id = s, !.message = m]]
    /\ mindmap_view' = NoResult
    /\ candidates_view' = NoResult
    /\ UNCHANGED <<decoderVars, sortVars, scenario, mind_maps, projects, connections, issues,
                   root_causes, plans, tasks, snapshots>>

\* session_repository.create_anonymous_user: INSERT INTO users (is_anonymous)
\* VALUES (TRUE) RETURNING id
CreateAnonymousUser(rows) == Append(rows, [is_anonymous |-> TRUE])

\* raise HTTPException(status_code=status): the request ends here, with
\* nothing written after the point it was raised at.
Reject(status) ==
    /\ chat.rejected < MaxRejects
    /\ chat' = [rejected |-> chat.rejected + 1, status |-> status]
    /\ UNCHANGED <<decoderVars, sortVars, scenario, clock, tableVars, turn, mindmap_view,
                   candidates_view>>

\* POST /chat, send_message, up to the first statement of process_message.
\* The user is the authenticated one, else body.user_id, else a new anonymous
\* user; then the session is made (no body.session_id) or looked up: 404 when
\* there is none, 403 when an authenticated requester does not own it.
SendMessage(rq, m) ==
    LET anonymous == rq.auth = NoId /\ rq.user_id = NoId
        users_then == IF anonymous THEN CreateAnonymousUser(users) ELSE users
        user_id == IF rq.auth # NoId THEN rq.auth
                   ELSE IF rq.user_id # NoId THEN rq.user_id ELSE Len(users_then)
        new_id == Cardinality(DOMAIN sessions) + 1
    IN  /\ rq \in Requests(scenario)
        /\ users' = users_then
        /\ \/ /\ rq.session_id = NoId
              /\ sessions' = [s \in DOMAIN sessions \cup {new_id} |->
                                  IF s = new_id THEN [user_id |-> user_id, updated_at |-> 0]
                                  ELSE sessions[s]]
              /\ UNCHANGED chat
              /\ ReceiveMessage(rq.task, new_id, m)
           \/ /\ rq.session_id # NoId /\ rq.session_id \notin DOMAIN sessions
              /\ Reject(404)
           \/ /\ rq.session_id \in DOMAIN sessions
              /\ rq.auth # NoId /\ sessions[rq.session_id].user_id # rq.auth
              /\ Reject(403)
           \/ /\ rq.session_id \in DOMAIN sessions
              /\ ~(rq.auth # NoId /\ sessions[rq.session_id].user_id # rq.auth)
              /\ UNCHANGED <<sessions, chat>>
              /\ ReceiveMessage(rq.task, rq.session_id, m)

\* session_repository.update_session(session_id)
TouchSession(p) ==
    /\ turn[p].pc = "touch"
    /\ sessions' = [sessions EXCEPT ![turn[p].session_id].updated_at = turn[p].turn_no]
    /\ turn' = [turn EXCEPT ![p].pc = "gather"]
    /\ UNCHANGED <<decoderVars, sortVars, users, chat, scenario, clock, messages, mind_maps, projects, connections, issues,
                   root_causes, plans, tasks, snapshots, mindmap_view,
                   candidates_view>>

\* The gather is pending, or has raised on the snapshot read while the context
\* task, which a raising gather does not cancel, runs on.
ContextTaskRuns(p) ==
    turn[p].pc = "gather" \/ (turn[p].pc = "failed" /\ turn[p].failed_at = "snapshot_read")

\* _build_context, first await: message_repository.get_recent_messages(session_id, limit=15),
\* which stands before the try: when the read raises, _build_context raises.
ReadHistory(p) ==
    /\ ContextTaskRuns(p) /\ turn[p].ctx_pc = "todo"
    /\ \/ turn' = [turn EXCEPT ![p].ctx_pc = "history_read"]
       \/ turn' = [turn EXCEPT ![p].pc = "failed", ![p].ctx_pc = "history_raised",
                               ![p].failed_at = IF turn[p].pc = "failed" THEN @ ELSE "context"]
    /\ UNCHANGED <<decoderVars, sortVars, users, chat, scenario, clock, tableVars, mindmap_view,
                   candidates_view>>

\* The context returned when the generator call is caught failing.
DefaultContext(message) ==
    [emotion |-> "unknown", emotion_intensity |-> "medium", user_intent |-> "understanding",
     summary |-> SubSeq(message, 1, Min(SummaryLimit, Len(message))),
     session_stage |-> "early"]
GeneratedContext ==
    [emotion |-> "calm", emotion_intensity |-> "low", user_intent |-> "exploring",
     summary |-> <<"s">>, session_stage |-> "middle"]

BuildContextCatchesValueErrorOnly(exc) == exc = "ValueError"
\* except Exception as e
BuildContextCatches(exc) == exc \in ExceptionSubclasses

\* _build_context, second await: ai_client.json_completion(...) inside try/except
ExtractContext(p) ==
    /\ ContextTaskRuns(p) /\ turn[p].ctx_pc = "history_read"
    /\ \E outcome \in ContextOutcomes(scenario) :
          turn' = IF outcome = "ok"
                  THEN [turn EXCEPT ![p].ctx_pc = "done", ![p].ctx_outcome = outcome,
                                    ![p].context = GeneratedContext,
                                    ![p].requests = @ + GatewayRequests(outcome)]
                  ELSE IF BuildContextCatches(Raised(outcome))
                  THEN [turn EXCEPT ![p].ctx_pc = "done", ![p].ctx_outcome = outcome,
                                    ![p].context = DefaultContext(turn[p].message),
                                    ![p].requests = @ + GatewayRequests(outcome)]
                  ELSE [turn EXCEPT ![p].pc = "failed",
                                    ![p].failed_at = IF turn[p].pc = "failed" THEN @ ELSE "context",
                                    ![p].ctx_pc = "raised", ![p].ctx_outcome = outcome,
                                    ![p].requests = @ + GatewayRequests(outcome)]
    /\ UNCHANGED <<decoderVars, sortVars, users, chat, scenario, clock, tableVars, mindmap_view,
                   candidates_view>>

\* layer5_memory.retrieve_latest_snapshot(session_id), the other branch of the gather
RetrieveLatestSnapshot(p) ==
    /\ turn[p].pc = "gather" /\ turn[p].snap_pc = "todo"
    /\ \/ turn' = [turn EXCEPT ![p].snap_pc = "done",
                               ![p].existing_snapshot = LatestSnapshot(turn[p].session_id)]
       \/ turn' = [Fail(p, "snapshot_read") EXCEPT ![p].snap_pc = "raised"]
    /\ UNCHANGED <<decoderVars, sortVars, users, chat, scenario, clock, tableVars, mindmap_view,
                   candidates_view>>

JoinGatherOnContextOnly(p) ==
    /\ turn[p].pc = "gather" /\ turn[p].ctx_pc = "done"
    /\ turn' = [turn EXCEPT ![p].pc = "synthesize"]
    /\ UNCHANGED <<decoderVars, sortVars, users, chat, scenario, clock, tableVars, mindmap_view,
                   candidates_view>>
\* asyncio.gather returns once both branches have completed
JoinGather(p) ==
    /\ turn[p].pc = "gather" /\ turn[p].ctx_pc = "done" /\ turn[p].snap_pc = "done"
    /\ turn' = [turn EXCEPT ![p].pc = "synthesize"]
    /\ UNCHANGED <<decoderVars, sortVars, users, chat, scenario, clock, tableVars, mindmap_view,
                   candidates_view>>

\* layer2_mindmap.build_mind_map: the generator's graph, or the call raises
BuildMindMap(p) ==
    /\ turn[p].pc = "synthesize"
    /\ \/ \E g \in Graphs(scenario) :
              turn' = [turn EXCEPT ![p].pc = "persist_map", ![p].mind_map_data = g,
                                   ![p].requests = @ + GatewayRequests("ok")]
       \/ \E failure \in GeneratorFailures :
              turn' = [Fail(p, "synthesize") EXCEPT ![p].requests = @ + GatewayRequests(failure)]
    /\ UNCHANGED <<decoderVars, sortVars, users, chat, scenario, clock, tableVars, mindmap_view,
                   candidates_view>>

ExistingMindMapIdOfSession(t) == SessionMindMap(t.session_id)
\* existing_mind_map_id=existing_snapshot["mind_map_id"] if existing_snapshot else None
ExistingMindMapId(t) ==
    IF t.existing_snapshot = NoResult THEN 0 ELSE t.existing_snapshot.mind_map_id

\* layer2_mindmap.persist_mind_map
PersistMindMap(p) ==
    /\ turn[p].pc = "persist_map"
    /\ LET t == turn[p]
           g == t.mind_map_data
           existing == ExistingMindMapId(t)
           maps == IF existing # 0
                   THEN UpdateMindMap(mind_maps, existing, g.map_name, g.central_theme)
                   ELSE Append(mind_maps, [session_id |-> t.session_id, map_name |-> g.map_name,
                                           central_theme |-> g.central_theme,
                                           updated_at |-> t.turn_no])
           mm == IF existing # 0 THEN existing ELSE Len(maps)
           persisted == PersistProjects([rows |-> projects, map |-> <<>>, ok |-> TRUE], mm,
                                        g.projects, t.turn_no)
       IN  /\ mind_maps' = maps
           /\ projects' = persisted.rows
           /\ connections' = IF persisted.ok
                             THEN PersistConnections(connections, mm, g.connections,
                                                     persisted.map, t.turn_no)
                             ELSE connections
           /\ turn' = IF persisted.ok
                      THEN [turn EXCEPT ![p].pc = "analyze", ![p].mind_map_id = mm,
                                        ![p].id_mapping = persisted.map]
                      ELSE Fail(p, "persist_map")
    /\ UNCHANGED <<decoderVars, sortVars, users, chat, scenario, clock, sessions, messages, issues, root_causes, plans, tasks,
                   snapshots, mindmap_view,
                   candidates_view>>

\* layer4_actions.analyze_and_generate_tasks: the generator's analysis with its
\* tasks sorted, or the call raises
AnalyzeAndGenerateTasks(p) ==
    /\ turn[p].pc = "analyze"
    /\ \/ \E a \in Analyses(scenario) :
              turn' = [turn EXCEPT ![p].pc = "persist_analysis",
                                   ![p].generated_tasks = a.tasks,
                                   ![p].analysis = [a EXCEPT !.tasks = SortTasks(a.tasks)],
                                   ![p].requests = @ + GatewayRequests("ok")]
       \/ \E failure \in GeneratorFailures :
              turn' = [Fail(p, "analyze") EXCEPT ![p].requests = @ + GatewayRequests(failure)]
    /\ UNCHANGED <<decoderVars, sortVars, users, chat, scenario, clock, tableVars, mindmap_view,
                   candidates_view>>

\* layer4_actions.persist_analysis_and_tasks
PersistAnalysisAndTasks(p) ==
    /\ turn[p].pc = "persist_analysis"
    /\ LET t == turn[p]
           a == t.analysis
           mm == t.mind_map_id
           iss == PersistIssues([rows |-> issues, map |-> <<>>], mm, a.issues, t.turn_no)
           first == SubSeq(a.tasks, 1, Min(MaxPersistedTasks, Len(a.tasks)))
           tks == PersistTasks(tasks, mm, first, iss.map, t.turn_no)
       IN  /\ issues' = iss.rows
           /\ root_causes' = PersistRootCauses(root_causes, mm, a.root_causes, iss.map, t.turn_no)
           /\ plans' = PersistPlans(plans, a.plans, iss.map, t.turn_no)
           /\ tasks' = tks.rows
           /\ turn' = IF tks.ok THEN [turn EXCEPT ![p].pc = "respond"]
                      ELSE Fail(p, "persist_analysis")
    /\ UNCHANGED <<decoderVars, sortVars, users, chat, scenario, clock, sessions, messages, mind_maps, projects, connections,
                   snapshots, mindmap_view,
                   candidates_view>>

\* _generate_response: the generator's text, stripped, or the call raises
GenerateResponse(p) ==
    /\ turn[p].pc = "respond"
    /\ \/ turn' = [turn EXCEPT ![p].pc = "outbound", ![p].response_message = "reply",
                               ![p].requests = @ + GatewayRequests("ok")]
       \/ \E failure \in GeneratorFailures \ {"bad_json"} :
              turn' = [Fail(p, "respond") EXCEPT ![p].requests = @ + GatewayRequests(failure)]
    /\ UNCHANGED <<decoderVars, sortVars, users, chat, scenario, clock, tableVars, mindmap_view,
                   candidates_view>>

PersistOutboundBeforeResponse(p) ==
    /\ turn[p].pc = "respond"
    /\ messages' = Append(messages, [session_id |-> turn[p].session_id, role |-> "assistant",
                                     content |-> <<turn[p].response_message>>,
                                     created_in |-> turn[p].turn_no])
    /\ turn' = [turn EXCEPT ![p].pc = "snapshot"]
    /\ UNCHANGED <<decoderVars, sortVars, users, chat, scenario, clock, sessions, mind_maps, projects,
                   connections, issues, root_causes, plans, tasks, snapshots, mindmap_view,
                   candidates_view>>
\* message_repository.create_message(session_id, "assistant", response_message)
PersistOutbound(p) ==
    /\ turn[p].pc = "outbound"
    /\ messages' = Append(messages, [session_id |-> turn[p].session_id, role |-> "assistant",
                                     content |-> <<turn[p].response_message>>,
                                     created_in |-> turn[p].turn_no])
    /\ turn' = [turn EXCEPT ![p].pc = "snapshot"]
    /\ UNCHANGED <<decoderVars, sortVars, users, chat, scenario, clock, sessions, mind_maps, projects, connections, issues,
                   root_causes, plans, tasks, snapshots, mindmap_view,
                   candidates_view>>

StoreSnapshotOverLatest(p) ==
    /\ turn[p].pc = "snapshot"
    /\ LET t == turn[p]
           row == [session_id |-> t.session_id, mind_map_id |-> t.mind_map_id,
                   snapshot_data |-> [map_name |-> t.mind_map_data.map_name,
                                      central_theme |-> t.mind_map_data.central_theme],
                   unresolved_issues |->
                       [i \in 1..Len(t.analysis.issues) |-> t.analysis.issues[i].id],
                   created_in |-> t.turn_no]
       IN  snapshots' = IF snapshots = <<>> THEN <<row>>
                        ELSE [snapshots EXCEPT ![Len(snapshots)] = row]
    /\ turn' = [turn EXCEPT ![p].pc = "format"]
    /\ UNCHANGED <<decoderVars, sortVars, users, chat, scenario, clock, sessions, messages, mind_maps,
                   projects, connections, issues, root_causes, plans, tasks, mindmap_view,
                   candidates_view>>
\* layer5_memory.store_snapshot with the generator's map name and issue ids
StoreSnapshot(p) ==
    /\ turn[p].pc = "snapshot"
    /\ LET t == turn[p]
       IN  snapshots' = Append(snapshots,
               [session_id |-> t.session_id, mind_map_id |-> t.mind_map_id,
                snapshot_data |-> [map_name |-> t.mind_map_data.map_name,
                                   central_theme |-> t.mind_map_data.central_theme],
                unresolved_issues |-> [i \in 1..Len(t.analysis.issues) |-> t.analysis.issues[i].id],
                created_in |-> t.turn_no])
    /\ turn' = [turn EXCEPT ![p].pc = "format"]
    /\ UNCHANGED <<decoderVars, sortVars, users, chat, scenario, clock, sessions, messages, mind_maps, projects, connections,
                   issues, root_causes, plans, tasks, mindmap_view,
                   candidates_view>>

\* The four _format_* reads and the returned payload
FormatReply(p) ==
    /\ turn[p].pc = "format"
    /\ LET t == turn[p]
           analysis_response == AnalysisResponse(t.mind_map_id)
       IN  \E mind_map_response \in MindMapResponses(t.mind_map_id) :
               turn' = [turn EXCEPT ![p].pc = "done",
                          ![p].reply =
                              [session_id |-> t.session_id,
                               message |-> t.response_message,
                               mind_map |-> mind_map_response,
                               suggested_tasks |-> SuggestedTasks(t.mind_map_id),
                               metadata |-> [emotion |-> t.context.emotion,
                                             emotion_intensity |-> t.context.emotion_intensity,
                                             suggested_focus |->
                                                 t.analysis.suggested_issue_to_focus_now],
                               issues |-> analysis_response.issues,
                               root_causes |-> analysis_response.root_causes,
                               plans |-> analysis_response.plans,
                               latest_snapshot |-> SnapshotResponse(t.mind_map_id)]]
    /\ UNCHANGED <<decoderVars, sortVars, users, chat, scenario, clock, tableVars, mindmap_view,
                   candidates_view>>

\* GET /sessions/{session_id}/mindmap between two messages; 404 without a map
GetSessionMindmap(s) ==
    /\ \A q \in Procs : Finished(q)
    /\ SessionMindMap(s) # 0
    /\ mindmap_view' \in SessionMindMapResponses(SessionMindMap(s))
    /\ UNCHANGED <<decoderVars, sortVars, users, chat, scenario, clock, tableVars, turn, candidates_view>>

\* limit: int = 3
CandidateLimit == 3
\* Layer5Memory.retrieve_snapshot_candidates over find_similar_snapshots: the
\* snapshots of the user's sessions, ORDER BY created_at DESC LIMIT limit, each
\* joined with its mind map's current name.
SnapshotCandidates(user_id, limit) ==
    LET S == {i \in Ids(snapshots) : sessions[snapshots[i].session_id].user_id = user_id}
        order == OrderedDesc(S, [i \in S |-> i], [i \in S |-> 0])
    IN  [k \in 1..Min(limit, Len(order)) |->
            [snapshot |-> order[k],
             map_id |-> snapshots[order[k]].mind_map_id,
             map_name |-> mind_maps[snapshots[order[k]].mind_map_id].map_name,
             last_updated |-> snapshots[order[k]].created_in,
             summary |-> snapshots[order[k]].snapshot_data.central_theme,
             unresolved_issues |-> snapshots[order[k]].unresolved_issues]]

\* GET /users/{user_id}/snapshots between two messages
GetUserSnapshots(user_id, limit) ==
    /\ \A q \in Procs : Finished(q)
    /\ snapshots # <<>>
    /\ candidates_view' = [user_id |-> user_id, limit |-> limit,
                           candidates |-> SnapshotCandidates(user_id, limit)]
    /\ UNCHANGED <<decoderVars, sortVars, users, chat, scenario, clock, tableVars, turn, mindmap_view>>

NextPipeline ==
    \/ \E rq \in Requests(scenario), m \in Messages(scenario) : SendMessage(rq, m)
    \/ \E p \in Procs : TouchSession(p)
    \/ \E p \in Procs : ReadHistory(p)
    \/ \E p \in Procs : ExtractContext(p)
    \/ \E p \in Procs : RetrieveLatestSnapshot(p)
    \/ \E p \in Procs : JoinGather(p)
    \/ \E p \in Procs : BuildMindMap(p)
    \/ \E p \in Procs : PersistMindMap(p)
    \/ \E p \in Procs : AnalyzeAndGenerateTasks(p)
    \/ \E p \in Procs : PersistAnalysisAndTasks(p)
    \/ \E p \in Procs : GenerateResponse(p)
    \/ \E p \in Procs : PersistOutbound(p)
    \/ \E p \in Procs : StoreSnapshot(p)
    \/ \E p \in Procs : FormatReply(p)
    \/ \E s \in Sessions : GetSessionMindmap(s)
    \/ \E c \in Callers(scenario), limit \in {1, CandidateLimit} :
           GetUserSnapshots(sessions[c[2]].user_id, limit)

\* ------------------------------------------------------------------ claims
\* C1: after any turn every persisted connection has both endpoints among the
\* project/node rows that the same turn's graph persistence created, and the
\* connections a turn persists are exactly its candidates whose two endpoints
\* are in the turn's id mapping: a candidate with an endpoint outside the
\* mapping is never persisted.
C1_NoDanglingEndpoints ==
    /\ \A c \in Ids(connections) :
           \A e \in {connections[c].from_id, connections[c].to_id} :
               /\ e \in Ids(projects)
               /\ projects[e].created_in = connections[c].created_in
               /\ projects[e].mind_map_id = connections[c].mind_map_id
    /\ \A p \in Procs :
           turn[p].mind_map_id # 0 =>
               LET t == turn[p]
                   cands == t.mind_map_data.connections
                   mapped == {k \in 1..Len(cands) :
                                 /\ cands[k].from_id \in DOMAIN t.id_mapping
                                 /\ cands[k].to_id \in DOMAIN t.id_mapping}
                   rows == {c \in Ids(connections) : connections[c].created_in = t.turn_no}
               IN  /\ \A c \in rows :
                          \E k \in mapped :
                              /\ connections[c].from_id = t.id_mapping[cands[k].from_id]
                              /\ connections[c].to_id = t.id_mapping[cands[k].to_id]
                   /\ \A k \in 1..Len(cands) :
                          k \notin mapped =>
                              ~ \E c \in rows :
                                    /\ connections[c].from_id = Lookup(t.id_mapping, cands[k].from_id)
                                    /\ connections[c].to_id = Lookup(t.id_mapping, cands[k].to_id)

\* A second turn persisted one of two candidates, the other naming an id that
\* only an earlier turn's rows carried or no row carried.
C1_Witness ==
    \E p \in Procs :
        /\ turn[p].pc = "analyze"
        /\ turn[p].turn_no = 2
        /\ Len(turn[p].mind_map_data.connections) = 2
        /\ Cardinality({c \in Ids(connections) : connections[c].created_in = 2}) = 1
        /\ \E c \in Ids(connections) : connections[c].created_in = 1

\* C2 as stated: a later turn that finds a snapshot leaves the stored map name
\* and the reply's map_name equal to the name of the turn that created the
\* map, whatever name the generator returned.
C2_NameSetOnce ==
    \A p \in Procs :
        (turn[p].pc = "done" /\ turn[p].existing_snapshot # NoResult) =>
            LET mm == turn[p].mind_map_id
                S == {i \in Ids(snapshots) : snapshots[i].mind_map_id = mm}
                first == snapshots[CHOOSE i \in S : \A j \in S : i <= j]
            IN  /\ mind_maps[mm].map_name = first.snapshot_data.map_name
                /\ turn[p].reply.mind_map.map_name = first.snapshot_data.map_name

\* C3: every reply of process_message, however many project and node rows
\* earlier turns added, lists at most 5 projects and at most 3 nodes under
\* each of them.
C3_ReplyCaps ==
    \A p \in Procs :
        (turn[p].pc = "done" /\ turn[p].reply.mind_map # NoResult) =>
            LET ps == turn[p].reply.mind_map.projects
            IN  /\ Len(ps) <= 5
                /\ \A i \in 1..Len(ps) : Len(ps[i].nodes) <= 3

\* A reply of 5 projects out of more stored ones, one of them showing 3 of
\* its more than 3 nodes.
C3_Witness ==
    \E p \in Procs :
        /\ turn[p].pc = "done"
        /\ turn[p].reply.mind_map # NoResult
        /\ Len(turn[p].reply.mind_map.projects) = 5
        /\ Cardinality(MindMapProjects(turn[p].mind_map_id)) > 5
        /\ \E i \in 1..5 :
               LET v == turn[p].reply.mind_map.projects[i]
               IN  Len(v.nodes) = 3 /\ Cardinality(ProjectNodes(v.id)) > 3

\* C4 as stated: the session mind-map read never returns more than 5 projects
\* nor more than 3 nodes under a project.
C4_ReadPathCaps ==
    mindmap_view # NoResult =>
        /\ Len(mindmap_view.projects) <= 5
        /\ \A i \in 1..Len(mindmap_view.projects) : Len(mindmap_view.projects[i].nodes) <= 3

\* C5: the task list the Reasoning & Task Engine returns is non-increasing in
\* priority score (a missing score counting as 0), is a permutation of the
\* generator's list, and keeps the generator's order among equal scores.
C5_SortStablePermutation ==
    sort_out.kind = "sorted" =>
        LET out == sort_out.tasks
        IN  /\ Len(out) = Len(sort_in)
            /\ Range(out) = Range(sort_in)
            /\ \A i \in 1..(Len(out) - 1) : PriorityKey(out[i]) >= PriorityKey(out[i + 1])
            /\ \A i, j \in 1..Len(out) :
                   (i < j /\ PriorityKey(out[i]) = PriorityKey(out[j])) => out[i].name < out[j].name

\* A sort that moved a task, with a missing score and a score of 0 tied.
C5_Witness ==
    /\ sort_out.kind = "sorted"
    /\ sort_out.tasks # sort_in
    /\ \E i, j \in 1..Len(sort_in) :
           /\ i < j
           /\ sort_in[i].priority_score = Missing
           /\ sort_in[j].priority_score = Present(0)

\* C6: the reply's suggested_tasks has at most 2 entries, they are the top 2
\* by priority of the tasks persisted for the reply's mind map (no absent task
\* scores strictly higher than a present one, and none is left out while there
\* is room), and they are in non-increasing priority order.
C6_SuggestedTopTwo ==
    \A p \in Procs :
        turn[p].pc = "done" =>
            LET st == turn[p].reply.suggested_tasks
                all == {i \in Ids(tasks) : tasks[i].mind_map_id = turn[p].mind_map_id}
                shown == {st[i].id : i \in 1..Len(st)}
            IN  /\ Len(st) <= 2
                /\ Len(st) = Min(2, Cardinality(all))
                /\ Cardinality(shown) = Len(st)
                /\ shown \subseteq all
                /\ \A i \in 1..Len(st) : st[i].priority_score = tasks[st[i].id].priority_score
                /\ \A a \in all \ shown, s \in shown :
                       tasks[a].priority_score <= tasks[s].priority_score
                /\ \A i \in 1..(Len(st) - 1) : st[i].priority_score >= st[i + 1].priority_score

\* A reply showing two tasks of different scores, one from an earlier turn,
\* out of more than 5 stored ones.
C6_Witness ==
    \E p \in Procs :
        /\ turn[p].pc = "done"
        /\ Len(turn[p].reply.suggested_tasks) = 2
        /\ turn[p].reply.suggested_tasks[1].priority_score
               > turn[p].reply.suggested_tasks[2].priority_score
        /\ \E i \in 1..2 :
               tasks[turn[p].reply.suggested_tasks[i].id].created_in < turn[p].turn_no
        /\ Cardinality({i \in Ids(tasks) : tasks[i].mind_map_id = turn[p].mind_map_id}) > 5

\* C7: when the generator call of context extraction fails (timeout, HTTP
\* error, error envelope, missing response fields, undecodable JSON) context
\* extraction raises nothing and returns emotion unknown, intensity medium,
\* intent understanding, stage early and the first 200 characters of the
\* message as summary, and the turn goes on to graph synthesis.
C7_ContextFailureDefaults ==
    \A p \in Procs :
        turn[p].ctx_outcome \in GeneratorFailures =>
            /\ turn[p].ctx_pc = "done"
            /\ turn[p].failed_at # "context"
            /\ turn[p].pc = "gather" => turn[p].snap_pc = "todo" \/ ENABLED JoinGather(p)
            /\ turn[p].context.emotion = "unknown"
            /\ turn[p].context.emotion_intensity = "medium"
            /\ turn[p].context.user_intent = "understanding"
            /\ turn[p].context.session_stage = "early"
            /\ Len(turn[p].context.summary) = Min(200, Len(turn[p].message))
            /\ \A i \in 1..Len(turn[p].context.summary) :
                   turn[p].context.summary[i] = turn[p].message[i]

\* A turn whose context call timed out on a message longer than 200
\* characters has reached graph synthesis with a 200-character summary.
C7_Witness ==
    \E p \in Procs :
        /\ turn[p].pc = "synthesize"
        /\ turn[p].ctx_outcome = "timeout"
        /\ Len(turn[p].message) > 200
        /\ Len(turn[p].context.summary) = 200

\* C8: a text that parses as JSON, wrapped in a json-tagged fence with
\* surrounding whitespace, decodes to the value the bare text decodes to.
C8_FencedDecodesAsBare ==
    (dec_result # NoResult /\ dec_wrap.kind = "json_fence" /\ JsonLoads(dec_text).ok) =>
        /\ dec_result.kind = "value"
        /\ dec_result.value = JsonCompletion(dec_text, dec_budget).value

\* A fenced, padded, non-empty array was decoded.
C8_Witness ==
    /\ dec_result # NoResult
    /\ dec_wrap.kind = "json_fence"
    /\ dec_wrap.pad # <<>>
    /\ dec_result.kind = "value"
    /\ dec_result.value.t = "arr"
    /\ Len(dec_result.value.items) > 0

C10_DropIsSilentAndLocal ==
    \A p \in Procs :
        turn[p].mind_map_id # 0 =>
            LET t == turn[p]
                g == t.mind_map_data
                ids == ({g.projects[i].id : i \in 1..Len(g.projects)}
                           \cup UNION {{g.projects[i].nodes[j].id :
                                           j \in 1..Len(g.projects[i].nodes)} :
                                       i \in 1..Len(g.projects)}) \ {0}
                resolvable == {k \in 1..Len(g.connections) :
                                  g.connections[k].from_id \in ids /\ g.connections[k].to_id \in ids}
                rows == {c \in Ids(connections) : connections[c].created_in = t.turn_no}
            IN  /\ Cardinality(rows) = Cardinality(resolvable)
                /\ t.failed_at \notin {"synthesize", "persist_map"}

\* A turn whose first candidate did not resolve and whose second did: one
\* connection persisted out of two candidates, and the turn went on.
C10_Witness ==
    \E p \in Procs :
        /\ turn[p].pc = "analyze"
        /\ Len(turn[p].mind_map_data.connections) = 2
        /\ turn[p].mind_map_data.connections[1].to_id \notin DOMAIN turn[p].id_mapping
        /\ turn[p].mind_map_data.connections[2].from_id \in DOMAIN turn[p].id_mapping
        /\ turn[p].mind_map_data.connections[2].to_id \in DOMAIN turn[p].id_mapping
        /\ Cardinality({c \in Ids(connections) : connections[c].created_in = turn[p].turn_no}) = 1

\* C11: when the reasoning output holds a plan whose issue_id is the id of no
\* issue of that output, persistence creates no row for it, raises nothing,
\* and still persists the other plans (each on an issue row of the same turn)
\* and the tasks of the output.
C11_UnknownPlanDropped ==
    \A p \in Procs :
        (turn[p].analysis # NoResult /\ turn[p].pc # "persist_analysis") =>
            LET t == turn[p]
                a == t.analysis
                known == {a.issues[i].id : i \in 1..Len(a.issues)}
                rows == {r \in Ids(plans) : plans[r].created_in = t.turn_no}
            IN  /\ t.failed_at # "persist_analysis"
                /\ Cardinality(rows)
                       = Cardinality({k \in 1..Len(a.plans) : a.plans[k].issue_id \in known})
                /\ \A r \in rows :
                       /\ plans[r].issue_id \in Ids(issues)
                       /\ issues[plans[r].issue_id].created_in = t.turn_no
                /\ Cardinality({k \in Ids(tasks) : tasks[k].created_in = t.turn_no})
                       = Min(5, Len(a.tasks))

\* The output's first plan named an unknown issue and its second a known one:
\* one plan row and the task were persisted and the turn went on.
C11_Witness ==
    \E p \in Procs :
        /\ turn[p].pc = "respond"
        /\ Len(turn[p].analysis.plans) = 2
        /\ turn[p].analysis.plans[1].issue_id = "i9"
        /\ turn[p].analysis.plans[2].issue_id = "i1"
        /\ Cardinality({r \in Ids(plans) : plans[r].created_in = turn[p].turn_no}) = 1
        /\ \E k \in Ids(tasks) : tasks[k].created_in = turn[p].turn_no

\* C12 as stated: candidates(user, limit) holds at most limit entries, most
\* recent first, at most one per mind map of the user, and each is the most
\* recent snapshot of its map.
C12_OneCandidatePerMap ==
    candidates_view # NoResult =>
        LET c == candidates_view.candidates
        IN  /\ Len(c) <= candidates_view.limit
            /\ \A i \in 1..(Len(c) - 1) : c[i].last_updated >= c[i + 1].last_updated
            /\ \A i, j \in 1..Len(c) : c[i].map_id = c[j].map_id => i = j
            /\ \A i \in 1..Len(c) :
                   \A k \in Ids(snapshots) :
                       snapshots[k].mind_map_id = c[i].map_id => k <= c[i].snapshot

\* C13: the snapshot log is append-only with one entry per processed message:
\* no step changes or removes an existing snapshot, a step adds at most one,
\* a turn that has completed has exactly one snapshot of its own and a turn
\* that has not reached its snapshot step (or failed) has none.
C13_SnapshotsAppendOnly ==
    [][/\ Len(snapshots') >= Len(snapshots)
       /\ Len(snapshots') <= Len(snapshots) + 1
       /\ SubSeq(snapshots', 1, Len(snapshots)) = snapshots
       /\ \A p \in Procs :
              LET own == {i \in Ids(snapshots') :
                             /\ snapshots'[i].created_in = turn'[p].turn_no
                             /\ snapshots'[i].session_id = turn'[p].session_id}
              IN  Cardinality(own) = IF turn'[p].pc \in {"format", "done"} THEN 1 ELSE 0
       /\ \A n \in 1..clock' :
              Cardinality({i \in Ids(snapshots') : snapshots'[i].created_in = n}) <= 1]_vars

\* Two turns completed: two snapshots, the first still holding the first
\* turn's contents, which differ from the second's.
C13_Witness ==
    \E p \in Procs :
        /\ turn[p].pc = "done"
        /\ turn[p].turn_no = 2
        /\ Len(snapshots) = 2
        /\ snapshots[1].created_in = 1
        /\ snapshots[1].snapshot_data.map_name = "A"
        /\ snapshots[2].snapshot_data.map_name = "B"

\* C14: a turn whose graph synthesis, graph persistence, reasoning, reasoning
\* persistence or response composition failed has failed as a whole: it has
\* ended, returned no reply payload, and neither an assistant message nor a
\* snapshot of that turn is persisted.
C14_FailureFailsWholeTurn ==
    \A p \in Procs :
        turn[p].failed_at \in {"synthesize", "persist_map", "analyze", "persist_analysis",
                               "respond"} =>
            /\ turn[p].pc = "failed"
            /\ turn[p].reply = NoResult
            /\ \A i \in Ids(messages) :
                   ~(messages[i].role = "assistant" /\ messages[i].created_in = turn[p].turn_no)
            /\ \A i \in Ids(snapshots) : snapshots[i].created_in # turn[p].turn_no

\* A second turn failed while persisting its reasoning, after its graph and
\* part of its analysis were written and after an earlier turn completed.
C14_Witness ==
    \E p \in Procs :
        /\ turn[p].failed_at = "persist_analysis" /\ turn[p].pc = "failed"
        /\ turn[p].turn_no = 2 /\ turn[p].mind_map_id # 0
        /\ Len(snapshots) = 1
        /\ \E i \in Ids(messages) : messages[i].role = "assistant" /\ messages[i].created_in = 1


C16_ScoresInUnitInterval ==
    /\ \A i \in Ids(projects) : projects[i].importance_score \in 0..10
    /\ \A i \in Ids(tasks) : tasks[i].priority_score \in 0..10

\* C17: every field id attached to a persisted project or node belongs to the
\* closed field vocabulary, whatever field ids the generator returned.
C17_FieldsInVocabulary ==
    \A i \in Ids(projects) : projects[i].fields \subseteq FieldVocabulary


\* C18: the steps of a turn happen in the order inbound message, context
\* extraction and snapshot retrieval, graph synthesis, graph persistence,
\* reasoning, persistence of the analysis, response composition, assistant
\* message, snapshot, reply: the effect of a step is present only when the
\* step before it has finished, and a successful turn has the effects of all.
C18_StepsInOrder ==
    \A p \in Procs :
        LET t == turn[p]
            n == t.turn_no
            Of(rows) == {i \in Ids(rows) : rows[i].created_in = n}
            inbound == {i \in Of(messages) : messages[i].role = "user"}
            outbound == {i \in Of(messages) : messages[i].role = "assistant"}
            gathered == t.ctx_pc = "done" /\ t.snap_pc = "done"
            synthesized == t.mind_map_data # NoResult
            graphPersisted == t.mind_map_id # 0
            reasoned == t.analysis # NoResult
            analysisPersisted ==
                /\ Cardinality(Of(issues)) = Len(t.analysis.issues)
                /\ Cardinality(Of(tasks)) = Min(MaxPersistedTasks, Len(t.analysis.tasks))
            composed == t.response_message # ""
        IN  n > 0 =>
            /\ (t.ctx_pc # "todo" \/ t.snap_pc # "todo") => inbound # {}
            /\ synthesized => gathered
            /\ (graphPersisted \/ Of(projects) # {} \/ Of(connections) # {}) => synthesized
            /\ reasoned => graphPersisted
            /\ (Of(issues) # {} \/ Of(root_causes) # {} \/ Of(plans) # {} \/ Of(tasks) # {})
                   => reasoned
            /\ composed => reasoned /\ analysisPersisted
            /\ outbound # {} => composed
            /\ \A i \in inbound, k \in outbound : i < k
            /\ Of(snapshots) # {} => outbound # {}
            /\ t.reply # NoResult => Of(snapshots) # {}
            /\ t.pc = "done" =>
                   /\ inbound # {} /\ gathered /\ synthesized /\ graphPersisted
                   /\ reasoned /\ analysisPersisted /\ composed /\ outbound # {}
                   /\ Of(snapshots) # {} /\ t.reply # NoResult

\* A second turn is between its assistant message and its snapshot: everything
\* up to the message is there, the snapshot and the reply are not.
C18_Witness ==
    \E p \in Procs :
        /\ turn[p].turn_no = 2 /\ turn[p].pc = "snapshot"
        /\ \E i \in Ids(messages) : messages[i].role = "assistant" /\ messages[i].created_in = 2
        /\ \E i \in Ids(projects) : projects[i].created_in = 2
        /\ \E i \in Ids(tasks) : tasks[i].created_in = 2
        /\ \A i \in Ids(snapshots) : snapshots[i].created_in = 1
        /\ Len(snapshots) = 1 /\ turn[p].reply = NoResult


\* C19: context extraction and latest-snapshot retrieval are issued together
\* and graph synthesis starts only when both have completed, in whichever
\* order; when the snapshot retrieval has failed the turn has failed, no graph
\* is synthesized and no step writes a mind map, a project or a connection.
C19_SynthesisAfterBoth ==
    [][\A p \in Procs :
           LET t == turn'[p]
               started == \/ t.pc \notin {"idle", "touch", "gather", "failed"}
                          \/ t.failed_at \notin {"none", "context", "snapshot_read"}
                          \/ t.mind_map_data # NoResult
           IN  /\ started => t.ctx_pc = "done" /\ t.snap_pc = "done"
               /\ turn[p].pc = "touch" /\ t.pc = "gather"
                      => t.ctx_pc = "todo" /\ t.snap_pc = "todo"
               /\ t.snap_pc = "raised" =>
                      /\ t.pc = "failed" /\ t.failed_at = "snapshot_read"
                      /\ ~started /\ t.mind_map_id = 0
                      /\ mind_maps' = mind_maps /\ projects' = projects
                      /\ connections' = connections]_vars

\* The snapshot retrieval of a second turn failed and the context extraction,
\* which was issued with it, completed afterwards: the first turn's graph is
\* all there is.
C19_Witness ==
    \E p \in Procs :
        /\ turn[p].turn_no = 2 /\ turn[p].snap_pc = "raised" /\ turn[p].ctx_pc = "done"
        /\ turn[p].pc = "failed" /\ turn[p].requests = 1
        /\ Len(mind_maps) = 1
        /\ \A i \in Ids(projects) : projects[i].created_in = 1


\* C20: after any sequence of turns on a session, turns that failed partway
\* included, the session has at most one MindMap row.
C20_OneMindMapPerSession ==
    \A s \in Sessions :
        Cardinality({i \in Ids(mind_maps) : mind_maps[i].session_id = s}) <= 1


\* C23: when a turn fails at some stage, the rows that the earlier stages of
\* the turn persisted (inbound message, mind map, projects and nodes,
\* connections, issues, root causes, plans, tasks) are all in storage, and no
\* step, failing or later, removes or alters a row of these tables.
C23_NoRollback ==
    [][/\ \A p \in Procs :
              LET t == turn'[p]
                  n == t.turn_no
                  g == t.mind_map_data
                  a == t.analysis
                  Count(rows) == Cardinality({i \in Ids(rows) : rows[i].created_in = n})
                  labelled == {k \in 1..Len(g.projects) :
                                  \A j \in 1..k : g.projects[j].label # Missing}
                  scored == {k \in 1..Min(MaxPersistedTasks, Len(a.tasks)) :
                                \A j \in 1..k : a.tasks[j].priority_score # Missing}
              IN  t.pc = "failed" =>
                  /\ \E i \in Ids(messages') :
                         messages'[i].role = "user" /\ messages'[i].created_in = n
                  /\ t.failed_at = "persist_map" =>
                         /\ Cardinality({i \in Ids(projects') :
                                            /\ projects'[i].created_in = n
                                            /\ projects'[i].parent_id = 0})
                                = Cardinality(labelled)
                         /\ \E i \in Ids(mind_maps') :
                                /\ mind_maps'[i].session_id = t.session_id
                                /\ mind_maps'[i].map_name = g.map_name
                  /\ t.failed_at \in {"analyze", "persist_analysis", "respond"} =>
                         /\ t.mind_map_id \in Ids(mind_maps')
                         /\ Cardinality({i \in Ids(projects') :
                                            /\ projects'[i].created_in = n
                                            /\ projects'[i].parent_id = 0})
                                = Len(g.projects)
                         /\ Count(connections') =
                                Cardinality({k \in 1..Len(g.connections) :
                                                /\ g.connections[k].from_id \in DOMAIN t.id_mapping
                                                /\ g.connections[k].to_id \in DOMAIN t.id_mapping})
                  /\ t.failed_at \in {"persist_analysis", "respond"} =>
                         /\ Count(issues') = Len(a.issues)
                         /\ Count(root_causes') = Len(a.root_causes)
                         /\ Count(plans') =
                                Cardinality({k \in 1..Len(a.plans) :
                                                \E j \in 1..Len(a.issues) :
                                                    a.issues[j].id = a.plans[k].issue_id})
                         /\ Count(tasks') = Cardinality(scored)
       /\ SubSeq(messages', 1, Len(messages)) = messages
       /\ SubSeq(projects', 1, Len(projects)) = projects
       /\ SubSeq(connections', 1, Len(connections)) = connections
       /\ SubSeq(issues', 1, Len(issues)) = issues
       /\ SubSeq(root_causes', 1, Len(root_causes)) = root_causes
       /\ SubSeq(plans', 1, Len(plans)) = plans
       /\ SubSeq(tasks', 1, Len(tasks)) = tasks
       /\ Len(mind_maps') >= Len(mind_maps)
       /\ \A i \in Ids(mind_maps) : mind_maps'[i].session_id = mind_maps[i].session_id]_vars

\* A turn failed while persisting its graph, at the second project: the mind
\* map and the first project are in storage.  An earlier turn failed while
\* persisting its tasks, and its issue and first task are still there.
C23_Witness ==
    \E p \in Procs :
        /\ turn[p].pc = "failed" /\ turn[p].failed_at = "persist_map" /\ turn[p].turn_no = 2
        /\ \E i \in Ids(projects) : projects[i].created_in = 2
        /\ \E i \in Ids(issues) : issues[i].created_in = 1
        /\ \E i \in Ids(tasks) : tasks[i].created_in = 1
        /\ snapshots = <<>>


\* C24: the rows persisted for a turn hold at most 5 projects and at most 3
\* child nodes per project, the excess of the generator's graph having been
\* truncated before persistence.
C24_PersistedWithinCaps ==
    /\ \A n \in 1..clock :
           Cardinality({i \in Ids(projects) :
                           projects[i].created_in = n /\ projects[i].parent_id = 0})
               <= ProjectLimit
    /\ \A i \in Ids(projects) :
           Cardinality({k \in Ids(projects) : projects[k].parent_id = i}) <= NodeLimit


\* C25: a generated task that names an issue id which is not among the issues
\* of the same reasoning output is skipped, so the task rows of a turn whose
\* analysis was persisted are those of its (first five) tasks that name a
\* known issue; no error is raised.
C25_UnknownIssueTaskSkipped ==
    \A p \in Procs :
        LET t == turn[p]
            known == {t.analysis.issues[j].id : j \in 1..Len(t.analysis.issues)}
            kept == {k \in 1..Min(MaxPersistedTasks, Len(t.analysis.tasks)) :
                        t.analysis.tasks[k].related_issue \in known}
        IN  t.pc \in {"respond", "outbound", "snapshot", "format", "done"} =>
                Cardinality({i \in Ids(tasks) : tasks[i].created_in = t.turn_no})
                    = Cardinality(kept)

\* C27: every persisted plan references an issue row created in the same turn
\* and every persisted root-cause link points to an issue row created in the
\* same turn; a root cause is persisted whether or not its linked issue ids
\* are known, with the links to known issues only, in their order.
C27_LinksToSameTurnIssues ==
    /\ \A i \in Ids(plans) :
           plans[i].issue_id \in Ids(issues)
               /\ issues[plans[i].issue_id].created_in = plans[i].created_in
    /\ \A i \in Ids(root_causes) : \A k \in 1..Len(root_causes[i].linked_issue_ids) :
           LET linked == root_causes[i].linked_issue_ids[k]
           IN  linked \in Ids(issues) /\ issues[linked].created_in = root_causes[i].created_in
    /\ \A p \in Procs :
           LET t == turn[p]
               known == {t.analysis.issues[j].id : j \in 1..Len(t.analysis.issues)}
               mine == {i \in Ids(root_causes) : root_causes[i].created_in = t.turn_no}
           IN  t.pc \in {"respond", "outbound", "snapshot", "format", "done"} =>
                   /\ Cardinality(mine) = Len(t.analysis.root_causes)
                   /\ \A k \in 1..Len(t.analysis.root_causes) :
                          \E i \in mine :
                              /\ root_causes[i].cause_id = t.analysis.root_causes[k].id
                              /\ Len(root_causes[i].linked_issue_ids) =
                                     Cardinality({l \in 1..Len(t.analysis.root_causes[k].linked_issues) :
                                                     t.analysis.root_causes[k].linked_issues[l] \in known})

\* The second turn persisted a root cause whose links were one unknown and one
\* known issue id: the row is there with the known link alone, to the issue of
\* the second turn.
C27_Witness ==
    \E p \in Procs : \E i \in Ids(root_causes) :
        /\ turn[p].pc = "respond" /\ turn[p].turn_no = 2
        /\ turn[p].analysis.root_causes[1].linked_issues = <<"i9", "i1">>
        /\ root_causes[i].created_in = 2
        /\ Len(root_causes[i].linked_issue_ids) = 1
        /\ issues[root_causes[i].linked_issue_ids[1]].created_in = 2
        /\ \E k \in Ids(issues) : issues[k].created_in = 1


\* C28: in every reply of process_message each connection listed in
\* mind_map.connections has its from_id and its to_id among the ids of the
\* projects and nodes listed in the same reply's mind_map.projects.
C28_ReplyConnectionsListed ==
    \A p \in Procs :
        turn[p].reply # NoResult /\ turn[p].reply.mind_map # NoResult =>
            LET mm == turn[p].reply.mind_map
                listed == {mm.projects[k].id : k \in 1..Len(mm.projects)}
                          \cup UNION {Range(mm.projects[k].nodes) : k \in 1..Len(mm.projects)}
            IN  \A c \in 1..Len(mm.connections) :
                    mm.connections[c].from_id \in listed /\ mm.connections[c].to_id \in listed


\* C29: in every successful reply of turns processed one at a time,
\* latest_snapshot is non-null and is the snapshot written by the same turn:
\* it carries the turn's map name and its unresolved_issues are, in order,
\* the ids of the issues of the turn's reasoning output.
C29_ReplySnapshotIsOwn ==
    \A p \in Procs :
        turn[p].reply # NoResult =>
            LET t == turn[p]
                latest == t.reply.latest_snapshot
            IN  /\ latest # NoResult
                /\ latest.last_updated = t.turn_no
                /\ latest.map_name = t.mind_map_data.map_name
                /\ latest.unresolved_issues =
                       [k \in 1..Len(t.analysis.issues) |-> t.analysis.issues[k].id]

\* The second turn's reply carries the two issues of its own reasoning output,
\* the first turn's snapshot of the same mind map holding another list.
C29_Witness ==
    \E p \in Procs :
        /\ turn[p].pc = "done" /\ turn[p].turn_no = 2
        /\ turn[p].reply.latest_snapshot.unresolved_issues = <<"i2", "i1">>
        /\ Len(snapshots) = 2
        /\ snapshots[1].unresolved_issues = <<"i1">>
        /\ snapshots[1].mind_map_id = snapshots[2].mind_map_id


\* C26: context extraction raises nothing to the pipeline for any cause inside
\* the stage: once it has ended without being cancelled, and in particular
\* when its read of the conversation history failed, it has returned a
\* context and has not failed the turn.
C26_ContextNeverRaises ==
    \A p \in Procs :
        turn[p].ctx_pc \notin {"todo", "history_read"} /\ turn[p].ctx_outcome # "cancelled" =>
            /\ turn[p].ctx_pc = "done"
            /\ turn[p].context # NoResult
            /\ turn[p].failed_at # "context"


\* C21 as stated: when two messages of one session are processed at a time,
\* the session keeps a single MindMap row and both turns persist against it.
C21_RaceKeepsOneMindMap ==
    /\ \A s \in Sessions :
           Cardinality({i \in Ids(mind_maps) : mind_maps[i].session_id = s}) <= 1
    /\ \A p, q \in Procs :
           /\ turn[p].session_id = turn[q].session_id
           /\ turn[p].mind_map_id # 0 /\ turn[q].mind_map_id # 0
           => turn[p].mind_map_id = turn[q].mind_map_id

\* C21, amended: two turns of one session processed at a time are not
\* coordinated.  A turn that read no snapshot of the session creates a MindMap
\* row of its own and a turn that read one reuses that snapshot's MindMap, so
\* the session has at most one MindMap row per turn; every turn persists its
\* projects, connections, issues, root causes, tasks and snapshot against the
\* one MindMap it created or reused, which is a MindMap of its session.
C21_EachTurnItsOwnMindMap ==
    /\ \A s \in Sessions :
           Cardinality({i \in Ids(mind_maps) : mind_maps[i].session_id = s}) <= clock
    /\ \A p \in Procs :
           LET t == turn[p]
               n == t.turn_no
               mm == t.mind_map_id
               Mine(rows) == {i \in Ids(rows) : rows[i].created_in = n}
           IN  mm # 0 =>
               /\ mm \in Ids(mind_maps) /\ mind_maps[mm].session_id = t.session_id
               /\ IF t.existing_snapshot = NoResult
                  THEN mind_maps[mm].updated_at = n
                  ELSE mm = t.existing_snapshot.mind_map_id /\ mind_maps[mm].updated_at # n
               /\ \A i \in Mine(projects) : projects[i].mind_map_id = mm
               /\ \A i \in Mine(connections) : connections[i].mind_map_id = mm
               /\ \A i \in Mine(issues) : issues[i].mind_map_id = mm
               /\ \A i \in Mine(root_causes) : root_causes[i].mind_map_id = mm
               /\ \A i \in Mine(tasks) : tasks[i].mind_map_id = mm
               /\ \A i \in Mine(snapshots) :
                      snapshots[i].mind_map_id = mm /\ snapshots[i].session_id = t.session_id
               /\ \A i \in Mine(messages) : messages[i].session_id = t.session_id

\* Two turns of session 1 overlapped and both completed: neither read a
\* snapshot, the session has two MindMap rows and each turn's snapshot names
\* the turn's own one.
C21_Witness ==
    /\ turn[1].pc = "done" /\ turn[2].pc = "done"
    /\ turn[1].session_id = 1 /\ turn[2].session_id = 1
    /\ turn[1].existing_snapshot = NoResult /\ turn[2].existing_snapshot = NoResult
    /\ turn[1].mind_map_id # turn[2].mind_map_id
    /\ Len(mind_maps) = 2 /\ Len(snapshots) = 2
    /\ snapshots[1].mind_map_id # snapshots[2].mind_map_id


\* C22: two turns on different sessions processed at a time are independent.
\* A step of a turn leaves every row and the session record of the other
\* session as they were and adds no row to it; what a turn reads (its latest
\* snapshot, its mind map, the rows listed in its reply) belongs to its own
\* session; and the reply of a completed turn is what a fresh read of its
\* session gives, whatever the other turn did in between, as when the two
\* turns run one after the other (compared again at every step that writes a
\* row or makes the reply).
C22_SessionsIndependent ==
    [][LET MapOf(rows, i) == rows[i].mind_map_id
           SessionOfMap(mm) == mind_maps'[mm].session_id
           Untouched(s) == \A p \in Procs : turn'[p] # turn[p] => turn'[p].session_id # s
       IN  /\ \A s \in Sessions : Untouched(s) =>
                  /\ sessions'[s] = sessions[s]
                  /\ \A i \in Ids(messages') : messages'[i].session_id = s =>
                         i \in Ids(messages) /\ messages'[i] = messages[i]
                  /\ \A i \in Ids(snapshots') : snapshots'[i].session_id = s =>
                         i \in Ids(snapshots) /\ snapshots'[i] = snapshots[i]
                  /\ \A i \in Ids(mind_maps') : mind_maps'[i].session_id = s =>
                         i \in Ids(mind_maps) /\ mind_maps'[i] = mind_maps[i]
                  /\ \A i \in Ids(projects') : SessionOfMap(MapOf(projects', i)) = s =>
                         i \in Ids(projects) /\ projects'[i] = projects[i]
                  /\ \A i \in Ids(connections') : SessionOfMap(MapOf(connections', i)) = s =>
                         i \in Ids(connections) /\ connections'[i] = connections[i]
                  /\ \A i \in Ids(issues') : SessionOfMap(MapOf(issues', i)) = s =>
                         i \in Ids(issues) /\ issues'[i] = issues[i]
                  /\ \A i \in Ids(root_causes') : SessionOfMap(MapOf(root_causes', i)) = s =>
                         i \in Ids(root_causes) /\ root_causes'[i] = root_causes[i]
                  /\ \A i \in Ids(tasks') : SessionOfMap(MapOf(tasks', i)) = s =>
                         i \in Ids(tasks) /\ tasks'[i] = tasks[i]
                  /\ \A i \in Ids(plans') :
                         SessionOfMap(MapOf(issues', plans'[i].issue_id)) = s =>
                             i \in Ids(plans) /\ plans'[i] = plans[i]
           /\ \A p \in Procs :
                  LET t == turn'[p]
                      mm == t.mind_map_id
                  IN  /\ t.existing_snapshot # NoResult =>
                             t.existing_snapshot.session_id = t.session_id
                      /\ mm # 0 => SessionOfMap(mm) = t.session_id
                      /\ t.reply # NoResult =>
                             /\ \A k \in 1..Len(t.reply.mind_map.projects) :
                                    LET listed == t.reply.mind_map.projects[k]
                                    IN  /\ projects'[listed.id].mind_map_id = mm
                                        /\ \A node \in Range(listed.nodes) :
                                               projects'[node].mind_map_id = mm
                             /\ \A k \in 1..Len(t.reply.issues) :
                                    issues'[t.reply.issues[k]].mind_map_id = mm
                             /\ \A k \in 1..Len(t.reply.suggested_tasks) :
                                    tasks'[t.reply.suggested_tasks[k].id].mind_map_id = mm
                             /\ t.reply.latest_snapshot.last_updated = t.turn_no
                             /\ \E m \in Ids(mind_maps) :
                                    /\ m = mm
                                    /\ \/ /\ t.reply = turn[p].reply
                                          /\ tableVars' = tableVars
                                       \/ /\ t.reply.mind_map \in MindMapResponses(m)'
                                          /\ t.reply.suggested_tasks = SuggestedTasks(m)'
                                          /\ t.reply.latest_snapshot = SnapshotResponse(m)']_vars

\* C30: a chat request rejected before the pipeline runs (404 for a session id
\* no row has, 403 for an authenticated requester who does not own the
\* session) leaves the persisted state as it was: no row of users, sessions,
\* messages or any other table is created or changed by it.
C30_RejectionWritesNothing ==
    [][chat'.rejected # chat.rejected =>
           /\ chat'.status \in {403, 404}
           /\ users' = users
           /\ tableVars' = tableVars]_vars

\* The two turns overlapped (neither had ended when the other began its
\* gather) and both completed, each with a mind map, a snapshot and a reply
\* of its own session.
C22_Witness ==
    /\ turn[1].pc = "done" /\ turn[2].pc = "done"
    /\ turn[1].session_id = 1 /\ turn[2].session_id = 2
    /\ Len(mind_maps) = 2 /\ Len(snapshots) = 2
    /\ turn[1].turn_no = 1 /\ turn[2].turn_no = 2
    /\ snapshots[1].created_in = 2 /\ snapshots[2].created_in = 1
    /\ mind_maps[turn[1].mind_map_id].session_id = 1
    /\ mind_maps[turn[2].mind_map_id].session_id = 2


\* ----------------------------------------------------------- specifications
IdleDecoder ==
    /\ dec_text = <<>> /\ dec_wrap = [kind |-> "plain", pad |-> <<>>]
    /\ dec_response = <<>> /\ dec_budget = 1 /\ dec_result = NoResult
IdleSort == sort_in = <<>> /\ sort_out = NoResult

IdlePipeline == InitPipeline("idle")

NextDecoder == DecodeCall /\ UNCHANGED <<sortVars, pipelineVars>>
InitDecoderOnly == InitDecoder /\ IdleSort /\ IdlePipeline
SpecDecoder == InitDecoderOnly /\ [][NextDecoder]_vars

NextSort == SortCall /\ UNCHANGED <<decoderVars, pipelineVars>>
InitSortOnly == InitSort /\ IdleDecoder /\ IdlePipeline
SpecSort == InitSortOnly /\ [][NextSort]_vars

\* The pipeline, one message at a time, per family of generator replies.
InitCaps == InitPipeline("caps") /\ IdleDecoder /\ IdleSort
SpecCaps == InitCaps /\ [][NextPipeline]_vars
InitConns == InitPipeline("conns") /\ IdleDecoder /\ IdleSort
SpecConns == InitConns /\ [][NextPipeline]_vars
InitNames == InitPipeline("names") /\ IdleDecoder /\ IdleSort
SpecNames == InitNames /\ [][NextPipeline]_vars
InitTasks == InitPipeline("tasks") /\ IdleDecoder /\ IdleSort
SpecTasks == InitTasks /\ [][NextPipeline]_vars
InitRace == InitPipeline("race") /\ IdleDecoder /\ IdleSort
SpecRace == InitRace /\ [][NextPipeline]_vars
InitApart == InitPipeline("apart") /\ IdleDecoder /\ IdleSort
SpecApart == InitApart /\ [][NextPipeline]_vars
InitPlans == InitPipeline("plans") /\ IdleDecoder /\ IdleSort
SpecPlans == InitPlans /\ [][NextPipeline]_vars
InitFaults == InitPipeline("faults") /\ IdleDecoder /\ IdleSort
SpecFaults == InitFaults /\ [][NextPipeline]_vars
InitContext == InitPipeline("context") /\ IdleDecoder /\ IdleSort
SpecContext == InitContext /\ [][NextPipeline]_vars
\* POST /chat with every kind of request, one message at a time.
InitChat == InitPipeline("chat") /\ IdleDecoder /\ IdleSort
SpecChat == InitChat /\ [][NextPipeline]_vars

=============================================================================
